---------------------------- MODULE Spec2Model ----------------------------
(***************************************************************************)
(* A model of the AutoSEO backend (autoseo-systembackend/main.py): the     *)
(* sites table, the create-job handler, the background generation job and  *)
(* the read endpoints.                                                      *)
(*                                                                         *)
(* Text is a sequence of one-character strings.  A nullable value is an    *)
(* option: << >> is None/NULL and <<v>> is the value v.  The literal        *)
(* pieces of the HTML template are single tokens of the rendered sequence. *)
(* Times are whole seconds of Unix time; the process is taken to run in    *)
(* UTC, so datetime.now() and datetime.utcnow() read the same clock.       *)
(***************************************************************************)
EXTENDS Integers, Sequences, FiniteSets, TLC

VARIABLES
    sites,      \* the sites table: id -> row
    tasks,      \* the background tasks scheduled so far, in scheduling order
    now,        \* the wall clock
    commits,    \* the number of writes the table has committed
    response,   \* the HTTP response the last step sent, if it sent one:
                \* <<endpoint, path or body parameter, status code, body>>
    dash        \* the dashboard request in flight: position and query results

vars == <<sites, tasks, now, commits, response, dash>>

---------------------------------------------------------------------------
(* Bounds of the model *)

MaxSites == 2
MaxTicks == 1
MaxKeyLen == 3
MaxTextLen == 3

---------------------------------------------------------------------------
(* Program constants *)

MinKeywordLength == 2
MaxKeywordLength == 100
FixedSeoScore == 85
RecentLimit == 5

None == << >>
Some(v) == <<v>>
IsNone(o) == Len(o) = 0

---------------------------------------------------------------------------
(* Characters and Python's str methods *)

LowerLetters ==
    <<"a","b","c","d","e","f","g","h","i","j","k","l","m",
      "n","o","p","q","r","s","t","u","v","w","x","y","z">>

UpperLetters ==
    <<"A","B","C","D","E","F","G","H","I","J","K","L","M",
      "N","O","P","Q","R","S","T","U","V","W","X","Y","Z">>

Digits == <<"0","1","2","3","4","5","6","7","8","9">>

Whitespace == {" ", "\n", "\t", "\r"}

IndexIn(c, letters) ==
    IF \E i \in 1..Len(letters) : letters[i] = c
    THEN CHOOSE i \in 1..Len(letters) : letters[i] = c
    ELSE 0

IsLower(c) == IndexIn(c, LowerLetters) > 0
IsUpper(c) == IndexIn(c, UpperLetters) > 0
IsCased(c) == IsLower(c) \/ IsUpper(c)
ToUpper(c) == IF IsLower(c) THEN UpperLetters[IndexIn(c, LowerLetters)] ELSE c
ToLower(c) == IF IsUpper(c) THEN LowerLetters[IndexIn(c, UpperLetters)] ELSE c

Rep(c, n) == [i \in 1..n |-> c]

\* str.title(): a cased character is upper-cased when the character before it
\* is not cased (or it is the first), and lower-cased otherwise.
StrTitle(s) ==
    [i \in 1..Len(s) |->
        IF i > 1 /\ IsCased(s[i - 1]) THEN ToLower(s[i]) ELSE ToUpper(s[i])]

\* str.replace(old, new) for a one-character old: every occurrence.  `new`
\* takes one place of the result, as a character or as a token.
StrReplace(s, old, new) == [i \in 1..Len(s) |-> IF s[i] = old THEN new ELSE s[i]]

\* len(s.split()): the number of maximal runs of non-whitespace characters.
RECURSIVE WordsFrom(_, _, _)
WordsFrom(s, i, inWord) ==
    IF i > Len(s) THEN 0
    ELSE LET w == s[i] \notin Whitespace
         IN  (IF w /\ ~inWord THEN 1 ELSE 0) + WordsFrom(s, i + 1, w)

SplitCount(s) == WordsFrom(s, 1, FALSE)

\* str(n) of a number, zero-padded to `width` digits (as %H, %M and %S are).
RECURSIVE Padded(_, _)
Padded(n, width) ==
    IF width = 0 THEN << >>
    ELSE Padded(n \div 10, width - 1) \o <<Digits[(n % 10) + 1]>>

RECURSIVE DigitsOf(_)
DigitsOf(n) == IF n < 10 THEN <<Digits[n + 1]>>
               ELSE DigitsOf(n \div 10) \o <<Digits[(n % 10) + 1]>>

---------------------------------------------------------------------------
(* The clock *)

SecondsPerDay == 24 * 60 * 60

IsLeap(y) == (y % 4 = 0 /\ y % 100 # 0) \/ y % 400 = 0
DaysIn(y) == IF IsLeap(y) THEN 366 ELSE 365

\* The days from 1970-01-01 to the first day of year y.
DaysBefore(y) ==
    365 * (y - 1970) + ((y - 1) \div 4 - 1969 \div 4)
    - ((y - 1) \div 100 - 1969 \div 100) + ((y - 1) \div 400 - 1969 \div 400)

\* datetime.now().year: the year the day of t falls in.
YearOf(t) ==
    LET days == t \div SecondsPerDay
        guess == 1970 + days \div 365
    IN  CHOOSE y \in (guess - 1)..guess :
            DaysBefore(y) <= days /\ days < DaysBefore(y) + DaysIn(y)

\* datetime.now().strftime('%H%M%S')
StrfHMS(t) ==
    LET s == t % SecondsPerDay
    IN  Padded(s \div 3600, 2) \o Padded((s % 3600) \div 60, 2) \o Padded(s % 60, 2)

\* One second before 2026-01-01T00:00:00Z, so that a tick crosses midnight.
StartTime == 20454 * SecondsPerDay - 1


---------------------------------------------------------------------------
(* Requests (SiteGenerateRequest) *)

Chars_ab == <<"a","b">>
Chars_x_io == <<"x",".","i","o">>
DomainSuffix == <<".","a","u","t","o","-","s","e","o",".","a","p","p">>

\* language, tone, word_count and include_faq are accepted and never read.
Request(keyword, title, custom_domain) ==
    [keyword |-> keyword, title |-> title, custom_domain |-> custom_domain,
     cloud_provider |-> "aws"]

Requests ==
    { Request(Chars_ab, None, Some(<< >>)),
      Request(Rep("A", MaxKeywordLength), Some(<< >>), Some(Chars_x_io)),
      Request(<< >>, None, None),
      Request(<<"a">>, None, Some(Chars_x_io)),
      Request(Rep("a", MaxKeywordLength + 1), None, None) }

\* Mutant: the upper limit is off by one.
KeywordErrorOffByOne(keyword) ==
    IF Len(keyword) < MinKeywordLength THEN "string_too_short"
    ELSE IF Len(keyword) > MaxKeywordLength + 1 THEN "string_too_long"
    ELSE "ok"

\* Field(..., min_length=2, max_length=100)
KeywordError(keyword) ==
    IF Len(keyword) < MinKeywordLength THEN "string_too_short"
    ELSE IF Len(keyword) > MaxKeywordLength THEN "string_too_long"
    ELSE "ok"

\* Python's `a or b` on an optional string: a when it is neither None nor empty.
OrElse(opt, default) == IF IsNone(opt) \/ Len(opt[1]) = 0 THEN default ELSE opt[1]

DerivedDomain(keyword, t) ==
    StrReplace(keyword, " ", "-") \o <<"-">> \o StrfHMS(t) \o DomainSuffix

\* Mutant: `custom_domain if custom_domain is not None else ...`
DomainOfNoFallback(request, t) ==
    IF IsNone(request.custom_domain) THEN DerivedDomain(request.keyword, t)
    ELSE request.custom_domain[1]

DomainOf(request, t) == OrElse(request.custom_domain, DerivedDomain(request.keyword, t))

---------------------------------------------------------------------------
(* The sites table (class Site) *)

NoAnalytics == [error |-> None, word_count |-> None, deployment_time |-> None]

\* The row an INSERT of Site(domain, title, keyword, cloud_provider, status)
\* stores: the other columns take their defaults.
NewSite(id, request, t) ==
    [id |-> id,
     domain |-> DomainOf(request, t),
     title |-> OrElse(request.title, request.keyword),
     keyword |-> request.keyword,
     content |-> None,
     meta_description |-> None,
     meta_tags |-> None,
     cloud_provider |-> request.cloud_provider,
     cloud_url |-> None,
     status |-> "pending",
     created_at |-> t,
     seo_score |-> 0,
     analytics |-> NoAnalytics]

\* The primary key the table's sequence hands out: rows are never deleted.
NextId(table) == Cardinality(DOMAIN table) + 1

\* Mutant: the UPDATE carries the status column and drops the others.
FlushStatusOnly(row, obj, dirty) ==
    [f \in DOMAIN row |-> IF f \in dirty \cap {"status"} THEN obj[f] ELSE row[f]]

\* The UPDATE a flush issues for an object: its modified attributes.
\* (updated_at, which no operation reads, is left out of the rows.)
Flush(row, obj, dirty) ==
    [f \in DOMAIN row |-> IF f \in dirty THEN obj[f] ELSE row[f]]

\* class SiteResponse
SiteResponse(row) ==
    [id |-> row.id, domain |-> row.domain, title |-> row.title,
     keyword |-> row.keyword, status |-> row.status, cloud_url |-> row.cloud_url,
     seo_score |-> row.seo_score, created_at |-> row.created_at]


---------------------------------------------------------------------------
(* The Site Renderer: the f-string of process_site_generation *)

\* The template, cut at its interpolations.  "<title>", "</title>", "<h1>" and
\* "</h1>" are kept as tokens of their own.
HtmlHead == "\n<!DOCTYPE html>\n<html>\n<head>\n    "
HtmlMeta == "\n    <meta name=\"description\" content=\"Comprehensive guide about "
HtmlStyle == "\">\n    <style>\n        body { font-family: Arial, sans-serif; max-width: 800px; margin: 0 auto; padding: 20px; line-height: 1.6; }\n        h1 { color: #333; }\n        .content { margin-top: 20px; }\n    </style>\n</head>\n<body>\n    "
HtmlDivOpen == "\n    <div class=\"content\">\n        "
HtmlDivClose == "\n    </div>\n    <footer style=\"margin-top: 40px; color: #666; font-size: 0.9em;\">\n        <p>&copy; "
HtmlTail == " - Generated by AutoSEO</p>\n    </footer>\n</body>\n</html>\n            "

LineBreak == "<br>"

\* Mutant: replace(chr(10), '<br>', 1), the first newline only.
ReplaceFirst(s, old, new) ==
    [i \in 1..Len(s) |->
        IF s[i] = old /\ \A j \in 1..(i - 1) : s[j] # old THEN new ELSE s[i]]

BreakFirstLine(text) == ReplaceFirst(text, "\n", LineBreak)

\* content_text.replace(chr(10), '<br>')
BreakLines(text) == StrReplace(text, "\n", LineBreak)

RenderHtml(keyword, text, t) ==
    <<HtmlHead, "<title>">> \o StrTitle(keyword) \o <<"</title>", HtmlMeta>>
    \o keyword
    \o <<HtmlStyle, "<h1>">> \o StrTitle(keyword) \o <<"</h1>", HtmlDivOpen>>
    \o BreakLines(text)
    \o <<HtmlDivClose>> \o DigitsOf(YearOf(t)) \o <<HtmlTail>>

\* f"https://demo.autoseo.app/site/{site_id}"
DeployUrl(site_id) == <<"https://demo.autoseo.app/site/">> \o DigitsOf(site_id)

---------------------------------------------------------------------------
(* The Content Generator: what client.chat.completions.create can come to *)

Chars_two_lines == <<"a"," ","b","\n","\n","c">>

\* A completion whose message has text, a completion whose message content is
\* None, or an exception.
Completion(text) == [kind |-> "text", text |-> text, error |-> ""]
NullCompletion == [kind |-> "null", text |-> << >>, error |-> ""]
GeneratorError(msg) == [kind |-> "raise", text |-> << >>, error |-> msg]

GeneratorOutcomes ==
    { Completion(Chars_two_lines), NullCompletion, GeneratorError("Request timed out.") }

NoneTypeError == "'NoneType' object has no attribute 'replace'"
StoreError == "(sqlalchemy.exc.DBAPIError) store write failed"


---------------------------------------------------------------------------
(* State *)

NoResponse == <<"none", None, 0, None>>

IdleDash == [pc |-> "idle", seen |-> 0, total |-> 0, deployed |-> 0, avg |-> None]

Init ==
    /\ sites = << >>
    /\ tasks = << >>
    /\ now = StartTime
    /\ commits = 0
    /\ response = NoResponse
    /\ dash = IdleDash

\* background_tasks.add_task(process_site_generation, site.id, request).
\* The fields of a task: the arguments of process_site_generation, its
\* position, its session's object and modified attributes, how the generator
\* call ended, content_text, and whether a flush of its session has failed.
NewTask(site_id, request) ==
    [site_id |-> site_id, request |-> request, pc |-> "scheduled",
     site |-> None, dirty |-> {}, call |-> None, content_text |-> None,
     flush_failed |-> FALSE]

\* Time passes.
Tick ==
    /\ now < StartTime + MaxTicks
    /\ now' = now + 1
    /\ response' = NoResponse
    /\ UNCHANGED <<sites, tasks, commits, dash>>

---------------------------------------------------------------------------
(* GET /health *)

\* The requests that write nothing are issued one at a time: none of them is
\* sent while the dashboard request is being answered.  Create-job requests
\* and job steps run at any time.
HealthCheck ==
    /\ dash.pc = "idle"
    /\ response' = <<"health", None, 200, [status |-> "healthy", timestamp |-> now]>>
    /\ UNCHANGED <<sites, tasks, now, commits, dash>>

---------------------------------------------------------------------------
(* POST /api/sites/generate *)

\* The request body fails validation: FastAPI answers 422 and the handler
\* does not run.
RejectRequest(request) ==
    /\ dash.pc = "idle"
    /\ KeywordError(request.keyword) # "ok"
    /\ response' = <<"generate", request, 422, KeywordError(request.keyword)>>
    /\ UNCHANGED <<sites, tasks, now, commits, dash>>

\* db.add(site); await db.commit(): the INSERT
Insert(table, site) ==
    [i \in DOMAIN table \cup {site.id} |-> IF i = site.id THEN site ELSE table[i]]

\* generate_site: insert the row, refresh it, schedule the job, answer with the row.
GenerateSite(request) ==
    /\ KeywordError(request.keyword) = "ok"
    /\ Len(tasks) < MaxSites
    /\ LET site == NewSite(NextId(sites), request, now)
       IN  /\ sites' = Insert(sites, site)
           /\ tasks' = Append(tasks, NewTask(site.id, request))
           /\ response' = <<"generate", request, 200, SiteResponse(site)>>
    /\ commits' = commits + 1
    /\ UNCHANGED <<now, dash>>

---------------------------------------------------------------------------
(* process_site_generation *)

\* site.<attr> = value, for each attr of `values`
Assign(task, values) ==
    [task EXCEPT !.site = Some([f \in DOMAIN task.site[1] |->
                                   IF f \in DOMAIN values THEN values[f]
                                   ELSE task.site[1][f]]),
                 !.dirty = task.dirty \cup DOMAIN values]

\* Mutant: the UPDATE has lost its WHERE clause.
CommitEveryRow(task) ==
    [i \in DOMAIN sites |-> Flush(sites[i], task.site[1], task.dirty)]

\* await db.commit(): flush the object's modified attributes to its row.
Commit(task) ==
    [sites EXCEPT ![task.site_id] = Flush(sites[task.site_id], task.site[1], task.dirty)]

\* Mutant: the handler sends the job back to the generator call.
HandleRetries(task, msg) ==
    [Assign(task, [status |-> "failed",
                   analytics |-> [NoAnalytics EXCEPT !.error = Some(msg)]])
        EXCEPT !.pc = "loaded"]

\* Mutant: the handler puts the record back to pending, to be picked up again.
HandleResetsToPending(task, msg) ==
    [Assign(task, [status |-> "pending",
                   analytics |-> [NoAnalytics EXCEPT !.error = Some(msg)]])
        EXCEPT !.pc = "commit_failed"]

\* Mutant: the handler records the status and not the error.
HandleWithoutError(task, msg) ==
    [Assign(task, [status |-> "failed"]) EXCEPT !.pc = "commit_failed"]

\* except Exception as e: site.status = "failed"; site.analytics = {"error": str(e)}
Handle(task, msg) ==
    [Assign(task, [status |-> "failed",
                   analytics |-> [NoAnalytics EXCEPT !.error = Some(msg)]])
        EXCEPT !.pc = "commit_failed"]

\* Mutant: a job that finds no row makes one and goes on (get-or-create).
JobLoadOrCreate(k) ==
    /\ tasks[k].pc = "scheduled"
    /\ LET site == IF tasks[k].site_id \in DOMAIN sites THEN sites[tasks[k].site_id]
                   ELSE NewSite(tasks[k].site_id, tasks[k].request, now)
       IN  /\ sites' = Insert(sites, site)
           /\ tasks' = [tasks EXCEPT ![k] = [tasks[k] EXCEPT !.pc = "loaded",
                                                             !.site = Some(site)]]
    /\ response' = NoResponse
    /\ UNCHANGED <<now, commits, dash>>

\* select(Site).where(Site.id == site_id); scalar_one() raises when no row matches.
JobLoad(k) ==
    /\ tasks[k].pc = "scheduled"
    /\ tasks' = [tasks EXCEPT ![k] =
                    IF tasks[k].site_id \in DOMAIN sites
                    THEN [tasks[k] EXCEPT !.pc = "loaded",
                                          !.site = Some(sites[tasks[k].site_id])]
                    ELSE [tasks[k] EXCEPT !.pc = "crashed"]]
    /\ response' = NoResponse
    /\ UNCHANGED <<sites, now, commits, dash>>

\* Mutant: the status is assigned and the commit of line 163 is missing.
JobMarkGeneratingUncommitted(k) ==
    /\ tasks[k].pc = "loaded"
    /\ tasks' = [tasks EXCEPT ![k] =
                    [Assign(tasks[k], [status |-> "generating"]) EXCEPT !.pc = "calling"]]
    /\ response' = NoResponse
    /\ UNCHANGED <<sites, now, commits, dash>>

\* site.status = "generating"; await db.commit(); then the generator is called.
JobMarkGenerating(k) ==
    /\ tasks[k].pc = "loaded"
    /\ LET task == Assign(tasks[k], [status |-> "generating"])
       IN  /\ sites' = Commit(task)
           /\ tasks' = [tasks EXCEPT ![k] = [task EXCEPT !.pc = "calling", !.dirty = {}]]
    /\ commits' = commits + 1
    /\ response' = NoResponse
    /\ UNCHANGED <<now, dash>>

\* Lines 179-214, run without suspension once the generator call has ended.
AfterGenerator(task, outcome, t) ==
    IF outcome.kind = "raise" THEN Handle(task, outcome.error)
    ELSE IF outcome.kind = "null" THEN Handle(task, NoneTypeError)
    ELSE [Assign(task,
            [content |-> Some(RenderHtml(task.request.keyword, outcome.text, t)),
             cloud_url |-> Some(DeployUrl(task.site_id)),
             status |-> "deployed",
             seo_score |-> FixedSeoScore,
             analytics |-> [NoAnalytics EXCEPT
                               !.word_count = Some(SplitCount(outcome.text)),
                               !.deployment_time = Some(t)]])
            EXCEPT !.pc = "commit", !.content_text = Some(outcome.text)]

\* The generator call ends: with a completion or with an exception.
GeneratorEnds(k, outcome) ==
    /\ tasks[k].pc = "calling"
    /\ tasks' = [tasks EXCEPT ![k] =
                    AfterGenerator([tasks[k] EXCEPT !.call = Some(outcome)], outcome, now)]
    /\ response' = NoResponse
    /\ UNCHANGED <<sites, now, commits, dash>>

\* Mutant: the success write in two commits, the status in the second.
JobCommitDeployedInTwo(k, accepted) ==
    /\ tasks[k].pc = "commit"
    /\ accepted
    /\ sites' = Commit([tasks[k] EXCEPT !.dirty =
                           IF "content" \in tasks[k].dirty
                           THEN tasks[k].dirty \ {"status"} ELSE {"status"}])
    /\ commits' = commits + 1
    /\ tasks' = [tasks EXCEPT ![k] =
                    IF "content" \in tasks[k].dirty
                    THEN [tasks[k] EXCEPT !.dirty = {"status"}]
                    ELSE [tasks[k] EXCEPT !.pc = "done", !.dirty = {}]]
    /\ response' = NoResponse
    /\ UNCHANGED <<now, dash>>

\* The success write (line 216).  The store may reject it; the exception then
\* reaches the handler with the attributes of lines 207-214 already assigned.
JobCommitDeployed(k, accepted) ==
    /\ tasks[k].pc = "commit"
    /\ IF accepted
       THEN /\ sites' = Commit(tasks[k])
            /\ commits' = commits + 1
            /\ tasks' = [tasks EXCEPT ![k] = [tasks[k] EXCEPT !.pc = "done", !.dirty = {}]]
       ELSE /\ UNCHANGED <<sites, commits>>
            /\ tasks' = [tasks EXCEPT ![k] =
                            [Handle(tasks[k], StoreError) EXCEPT !.flush_failed = TRUE]]
    /\ response' = NoResponse
    /\ UNCHANGED <<now, dash>>

\* The handler's write (line 221).  After a generator or rendering error the
\* session is sound and the write goes through.  After a rejected success
\* write the source does not roll the session back, and what the session does
\* next is the library's: it writes all that is assigned ("all"), it has
\* dropped what the failed flush carried and writes the handler's two
\* attributes ("handler"), or it refuses the commit and the job ends with the
\* exception ("refused").
AfterFailedFlush == {"all", "handler", "refused"}

HandlerWrites(task, how) ==
    IF ~task.flush_failed \/ how = "all" THEN task.dirty
    ELSE IF how = "handler" THEN {"status", "analytics"}
    ELSE {}

JobCommitFailed(k, how) ==
    /\ tasks[k].pc = "commit_failed"
    /\ LET writes == HandlerWrites(tasks[k], how)
       IN  IF writes # {}
           THEN /\ sites' = Commit([tasks[k] EXCEPT !.dirty = writes])
                /\ commits' = commits + 1
                /\ tasks' = [tasks EXCEPT ![k] = [tasks[k] EXCEPT !.pc = "done", !.dirty = {}]]
           ELSE /\ UNCHANGED <<sites, commits>>
                /\ tasks' = [tasks EXCEPT ![k] = [tasks[k] EXCEPT !.pc = "crashed"]]
    /\ response' = NoResponse
    /\ UNCHANGED <<now, dash>>

---------------------------------------------------------------------------
(* Queries of the read endpoints *)

\* The orders in which the store may scan the rows of a table.
Scans(table) ==
    LET n == Cardinality(DOMAIN table)
    IN  {s \in [1..n -> DOMAIN table] : \A i, j \in 1..n : s[i] = s[j] => i = j}

\* Mutant: ORDER BY created_at, ascending.
RECURSIVE InsertAsc(_, _)
InsertAsc(rows, row) ==
    IF Len(rows) = 0 THEN <<row>>
    ELSE IF Head(rows).created_at <= row.created_at
         THEN <<Head(rows)>> \o InsertAsc(Tail(rows), row)
         ELSE <<row>> \o rows

\* ORDER BY created_at DESC: a row goes behind the rows that are not older.
\* Rows of equal created_at keep the order of the scan.
RECURSIVE InsertDesc(_, _)
InsertDesc(rows, row) ==
    IF Len(rows) = 0 THEN <<row>>
    ELSE IF Head(rows).created_at >= row.created_at
         THEN <<Head(rows)>> \o InsertDesc(Tail(rows), row)
         ELSE <<row>> \o rows

RECURSIVE SortedFrom(_, _, _)
SortedFrom(table, scan, i) ==
    IF i = 0 THEN << >>
    ELSE InsertDesc(SortedFrom(table, scan, i - 1), table[scan[i]])

\* select(Site).order_by(Site.created_at.desc())
OrderByCreatedDesc(table, scan) == SortedFrom(table, scan, Len(scan))

\* .limit(n)
Limit(rows, n) == SubSeq(rows, 1, IF Len(rows) < n THEN Len(rows) ELSE n)

\* select(func.count(Site.id))
CountAll(table) == Cardinality(DOMAIN table)

\* select(func.count(Site.id)).where(Site.status == status)
CountWhere(table, status) == Cardinality({i \in DOMAIN table : table[i].status = status})

RECURSIVE SumScores(_, _)
SumScores(table, ids) ==
    IF ids = {} THEN 0
    ELSE LET i == CHOOSE x \in ids : TRUE
         IN  table[i].seo_score + SumScores(table, ids \ {i})

\* Mutant: the average has lost its WHERE clause.
AvgOverAll(table, status) ==
    IF DOMAIN table = {} THEN None
    ELSE Some(<<SumScores(table, DOMAIN table), Cardinality(DOMAIN table)>>)

\* select(func.avg(Site.seo_score)).where(Site.status == status): NULL over no
\* row, else the mean, kept as <<sum, count>>.
AvgWhere(table, status) ==
    LET ids == {i \in DOMAIN table : table[i].status = status}
    IN  IF ids = {} THEN None
        ELSE Some(<<SumScores(table, ids), Cardinality(ids)>>)

\* round(x, 1) of the decimal num/den, in tenths: to the nearest tenth, a tie
\* to the even one.
RoundTenths(num, den) ==
    LET q == (10 * num) \div den
        r == (10 * num) % den
    IN  IF 2 * r < den THEN q
        ELSE IF 2 * r > den THEN q + 1
        ELSE IF q % 2 = 0 THEN q ELSE q + 1

\* round(avg_score.scalar() or 0, 1), in tenths
AverageField(avg) ==
    IF IsNone(avg) \/ avg[1][1] = 0 THEN 0 ELSE RoundTenths(avg[1][1], avg[1][2])

RecentEntry(row) ==
    [id |-> row.id, domain |-> row.domain, status |-> row.status,
     created_at |-> row.created_at]

---------------------------------------------------------------------------
(* GET /api/sites *)

ListSites(scan) ==
    /\ dash.pc = "idle"
    /\ LET rows == OrderByCreatedDesc(sites, scan)
       IN  response' = <<"list", None, 200, [i \in 1..Len(rows) |-> SiteResponse(rows[i])]>>
    /\ UNCHANGED <<sites, tasks, now, commits, dash>>

---------------------------------------------------------------------------
(* GET /api/sites/{site_id} *)

\* Mutant: an unknown id is answered with a fresh, empty record.
FindSiteOrDefault(table, site_id) ==
    IF site_id \in DOMAIN table THEN Some(table[site_id])
    ELSE Some(NewSite(site_id, Request(<< >>, None, None), 0))

\* scalar_one_or_none(): the row of that id, or None
FindSite(table, site_id) == IF site_id \in DOMAIN table THEN Some(table[site_id]) ELSE None

GetSite(site_id) ==
    /\ dash.pc = "idle"
    /\ LET site == FindSite(sites, site_id)
       IN  response' = IF IsNone(site)
                       THEN <<"get", site_id, 404, "Site not found">>
                       ELSE <<"get", site_id, 200, site[1]>>
    /\ UNCHANGED <<sites, tasks, now, commits, dash>>

---------------------------------------------------------------------------
(* GET /api/analytics/dashboard: four queries, each its own suspension point *)

DashCountTotal ==
    /\ dash.pc = "idle"
    /\ dash' = [dash EXCEPT !.pc = "count_deployed", !.seen = commits,
                            !.total = CountAll(sites)]
    /\ response' = NoResponse
    /\ UNCHANGED <<sites, tasks, now, commits>>

DashCountDeployed ==
    /\ dash.pc = "count_deployed"
    /\ dash' = [dash EXCEPT !.pc = "avg_score", !.deployed = CountWhere(sites, "deployed")]
    /\ response' = NoResponse
    /\ UNCHANGED <<sites, tasks, now, commits>>

DashAvgScore ==
    /\ dash.pc = "avg_score"
    /\ dash' = [dash EXCEPT !.pc = "recent", !.avg = AvgWhere(sites, "deployed")]
    /\ response' = NoResponse
    /\ UNCHANGED <<sites, tasks, now, commits>>

DashRecent(scan) ==
    /\ dash.pc = "recent"
    /\ LET rows == Limit(OrderByCreatedDesc(sites, scan), RecentLimit)
       IN  response' =
             <<"dashboard", None, 200,
               [overview |-> [total_sites |-> dash.total,
                              deployed_sites |-> dash.deployed,
                              average_seo_score |-> AverageField(dash.avg)],
                recent_sites |-> [i \in 1..Len(rows) |-> RecentEntry(rows[i])]]>>
    /\ dash' = IdleDash
    /\ UNCHANGED <<sites, tasks, now, commits>>

---------------------------------------------------------------------------
(* The system *)

SiteIds == 0..(MaxSites + 1)

Next ==
    \/ Tick
    \/ HealthCheck
    \/ \E request \in Requests : RejectRequest(request)
    \/ \E request \in Requests : GenerateSite(request)
    \/ \E k \in 1..Len(tasks) : JobLoad(k)
    \/ \E k \in 1..Len(tasks) : JobMarkGenerating(k)
    \/ \E k \in 1..Len(tasks), outcome \in GeneratorOutcomes : GeneratorEnds(k, outcome)
    \/ \E k \in 1..Len(tasks), accepted \in BOOLEAN : JobCommitDeployed(k, accepted)
    \/ \E k \in 1..Len(tasks), how \in AfterFailedFlush : JobCommitFailed(k, how)
    \/ \E scan \in Scans(sites) : ListSites(scan)
    \/ \E site_id \in SiteIds : GetSite(site_id)
    \/ DashCountTotal
    \/ DashCountDeployed
    \/ DashAvgScore
    \/ \E scan \in Scans(sites) : DashRecent(scan)

Spec == Init /\ [][Next]_vars

---------------------------------------------------------------------------
(* The record lifecycle *)

Transitions ==
    { <<"pending", "generating">>, <<"generating", "deployed">>,
      <<"generating", "failed">> }

Ended(task) == task.pc \in {"done", "crashed"}

\* C1: a record is created in pending, each change of its persisted status is
\* pending -> generating, generating -> deployed or generating -> failed, and
\* no record is removed; so a deployed or failed record keeps its status.
C1_StatusSequence ==
    [][ /\ DOMAIN sites \subseteq DOMAIN sites'
        /\ \A i \in DOMAIN sites' :
              IF i \in DOMAIN sites
              THEN \/ sites'[i].status = sites[i].status
                   \/ <<sites[i].status, sites'[i].status>> \in Transitions
              ELSE sites'[i].status = "pending" ]_vars

C1_Witness ==
    \E i, j \in DOMAIN sites :
        sites[i].status = "deployed" /\ sites[j].status = "failed"

\* C2: when a job whose generator call raised has ended, its record is
\* failed, analytics.error holds the exception's text, content is NULL and
\* analytics has neither word_count nor deployment_time.
C2_GeneratorErrorRecorded ==
    \A k \in 1..Len(tasks) :
        (Ended(tasks[k]) /\ ~IsNone(tasks[k].call) /\ tasks[k].call[1].kind = "raise")
        => LET row == sites[tasks[k].site_id]
           IN  /\ row.status = "failed"
               /\ row.analytics.error = Some(tasks[k].call[1].error)
               /\ IsNone(row.content)
               /\ IsNone(row.analytics.word_count)
               /\ IsNone(row.analytics.deployment_time)

C2_Witness ==
    \E k \in 1..Len(tasks) :
        /\ Ended(tasks[k]) /\ ~IsNone(tasks[k].call)
        /\ tasks[k].call[1].kind = "raise"
        /\ sites[tasks[k].site_id].status = "failed"

\* A step of 3-5 of the job failed: the generator call, the rendering, or the
\* success write.
StepFailed(task) ==
    \/ ~IsNone(task.call) /\ task.call[1].kind \in {"raise", "null"}
    \/ task.flush_failed

\* C3: when a job one of whose steps 3-5 failed has ended, its record is
\* failed with analytics.error set, and its content is NULL.
C3_FailureLeavesNoPartialResult ==
    \A k \in 1..Len(tasks) :
        (Ended(tasks[k]) /\ StepFailed(tasks[k]))
        => LET row == sites[tasks[k].site_id]
           IN  /\ row.status = "failed"
               /\ ~IsNone(row.analytics.error)
               /\ IsNone(row.content)

\* C4: the record a create-job request is answered with is pending and has
\* a non-empty domain, and every request with a keyword of 2 to 100 characters
\* is answered with a record.
C4_CreatedPendingWithDomain ==
    response[1] = "generate"
    => IF Len(response[2].keyword) \in MinKeywordLength..MaxKeywordLength
       THEN /\ response[3] = 200
            /\ response[4].status = "pending"
            /\ Len(response[4].domain) > 0
       ELSE response[3] # 200

C4_Witness ==
    /\ response[1] = "generate" /\ response[3] = 200
    /\ response[2].custom_domain = Some(<< >>)
    /\ Len(response[4].domain) > 0
    /\ \E k \in 1..Len(tasks) : Ended(tasks[k])

\* Every record has exactly one job: no two jobs have the same record id.
OneJobPerSite(table, jobs) ==
    /\ \A k1, k2 \in 1..Len(jobs) :
          jobs[k1].site_id = jobs[k2].site_id => k1 = k2
    /\ \A i \in DOMAIN table : \E k \in 1..Len(jobs) : jobs[k].site_id = i

\* C5: no two scheduled jobs have the same record id and every record has its
\* job, before and after every step; a step that changes a stored record is a
\* step of the job of that record's id and of no other job; the steps of
\* get-record, list-records, the dashboard and the health probe change no
\* record and add none.
C5_OnlyTheOwningJobWrites ==
    [][ /\ OneJobPerSite(sites, tasks)
        /\ OneJobPerSite(sites', tasks')
        /\ \A i \in DOMAIN sites :
              sites'[i] # sites[i]
              => \E k \in 1..Len(tasks) :
                    /\ tasks[k].site_id = i
                    /\ tasks'[k] # tasks[k]
                    /\ \A k2 \in 1..Len(tasks) \ {k} : tasks'[k2] = tasks[k2]
        /\ (response'[1] \in {"get", "list", "dashboard", "health"} \/ dash' # dash)
              => sites' = sites ]_vars

C5_Witness ==
    /\ Len(tasks) = 2
    /\ \A k \in 1..Len(tasks) : Ended(tasks[k])
    /\ sites[1].status # sites[2].status
    /\ response[1] \in {"get", "list", "dashboard", "health"}

---------------------------------------------------------------------------
(* The read endpoints *)

Deployed(table) == {i \in DOMAIN table : table[i].status = "deployed"}

RECURSIVE ScoreTotal(_, _)
ScoreTotal(table, n) ==
    IF n = 0 THEN 0
    ELSE (IF table[n].status = "deployed" THEN table[n].seo_score ELSE 0)
         + ScoreTotal(table, n - 1)

\* C6: a dashboard answer all of whose queries saw the same table (no write
\* was committed since its first query) has total_sites the number of records,
\* deployed_sites the number of deployed records, and average_seo_score (in
\* tenths) the mean score of the deployed records, 0 when there is none.
C6_DashboardAggregates ==
    [][ (dash.pc = "recent" /\ dash'.pc = "idle" /\ dash.seen = commits)
        => LET overview == response'[4].overview
               n == Cardinality(Deployed(sites))
           IN  /\ response'[1] = "dashboard"
               /\ overview.total_sites = Cardinality(DOMAIN sites)
               /\ overview.deployed_sites = n
               /\ overview.average_seo_score * n
                     = 10 * ScoreTotal(sites, Cardinality(DOMAIN sites))
               /\ n = 0 => overview.average_seo_score = 0 ]_vars

C6_Witness ==
    /\ response[1] = "dashboard"
    /\ response[4].overview.total_sites = 2
    /\ response[4].overview.deployed_sites = 1
    /\ response[4].overview.average_seo_score = 10 * FixedSeoScore
    /\ \E i \in DOMAIN sites : sites[i].status = "failed"
    /\ Cardinality(Deployed(sites)) = 1

\* C7: get-record of an id no stored record has is answered 404 "Site not
\* found"; get-record of a stored record's id is answered with that record.
C7_GetRecord ==
    response[1] = "get"
    => IF \E i \in DOMAIN sites : sites[i].id = response[2]
       THEN response[3] = 200 /\ response[4] = sites[response[2]]
       ELSE response[3] = 404 /\ response[4] = "Site not found"

C7_Witness ==
    /\ response[1] = "get" /\ response[3] = 404
    /\ response[2] = Cardinality(DOMAIN sites) + 1
    /\ \E i \in DOMAIN sites : sites[i].status = "deployed"

\* C8: a create-job request with a keyword shorter than 2 or longer than 100
\* characters is answered 422 in a step that adds no record and schedules no
\* job; no stored record and no scheduled job has such a keyword.
C8_BadKeywordRejected ==
    /\ [](/\ \A i \in DOMAIN sites :
                Len(sites[i].keyword) \in MinKeywordLength..MaxKeywordLength
          /\ \A k \in 1..Len(tasks) :
                Len(tasks[k].request.keyword) \in MinKeywordLength..MaxKeywordLength)
    /\ [][ (/\ response'[1] = "generate"
            /\ Len(response'[2].keyword) \notin MinKeywordLength..MaxKeywordLength)
           => (response'[3] = 422 /\ sites' = sites /\ tasks' = tasks) ]_vars

C8_Witness ==
    /\ response[1] = "generate" /\ response[3] = 422
    /\ Len(response[2].keyword) = MaxKeywordLength + 1
    /\ Len(tasks) = 1

\* C10: list-records answers with every stored record exactly once, each
\* entry not older than the one after it.
C10_ListNewestFirst ==
    response[1] = "list"
    => LET rows == response[4]
       IN  /\ Len(rows) = Cardinality(DOMAIN sites)
           /\ \A i \in DOMAIN sites : \E n \in 1..Len(rows) : rows[n].id = i
           /\ \A n \in 1..Len(rows) : rows[n] = SiteResponse(sites[rows[n].id])
           /\ \A n \in 1..(Len(rows) - 1) : rows[n].created_at >= rows[n + 1].created_at

C10_Witness ==
    /\ response[1] = "list" /\ Len(response[4]) = 2
    /\ response[4][1].created_at > response[4][2].created_at
    /\ response[4][1].id > response[4][2].id
    /\ response[4][1].status = "generating" /\ response[4][2].status = "deployed"

---------------------------------------------------------------------------
(* The renderer on its own: one job waiting for the generator, for every
   short keyword, and the generator returning every short text *)

KeyChars == {"a", "B", " "}
TextChars == {"a", " ", "\n"}

StringsOver(chars, lo, hi) == UNION {[1..n -> chars] : n \in lo..hi}

RenderKeywords == StringsOver(KeyChars, MinKeywordLength, MaxKeyLen)
RenderTexts == StringsOver(TextChars, 0, MaxTextLen)

\* The state generate_site, JobLoad and JobMarkGenerating leave for a request.
InitRender ==
    \E keyword \in RenderKeywords :
        LET request == Request(keyword, None, None)
            site == NewSite(1, request, StartTime)
            loaded == [NewTask(1, request) EXCEPT !.site = Some(site)]
            task == Assign(loaded, [status |-> "generating"])
        IN  /\ sites = [Insert(<< >>, site) EXCEPT ![1] = Flush(site, task.site[1], task.dirty)]
            /\ tasks = <<[task EXCEPT !.pc = "calling", !.dirty = {}]>>
            /\ now = StartTime
            /\ commits = 2
            /\ response = NoResponse
            /\ dash = IdleDash

NextRender ==
    \E k \in 1..Len(tasks), text \in RenderTexts : GeneratorEnds(k, Completion(text))

SpecRender == InitRender /\ [][NextRender]_vars


\* The element of a rendered document between two tokens of the template.
\* The first place of `token` in `doc` at or after place i (0: none).
IndexOf(doc, token, i) ==
    LET places == {n \in i..Len(doc) : doc[n] = token}
    IN  IF places = {} THEN 0
        ELSE CHOOSE n \in places : \A m \in places : n <= m

Between(doc, open, close) ==
    LET from == IndexOf(doc, open, 1)
        to == IndexOf(doc, close, from + 1)
    IN  SubSeq(doc, from + 1, to - 1)

Contains(doc, part) ==
    \E i \in 0..(Len(doc) - Len(part)) : SubSeq(doc, i + 1, i + Len(part)) = part

Rendered(task) == task.pc = "commit"

\* The generated text with each newline replaced by a line break and every
\* other character as it is.
TextConverted(element, text) ==
    /\ Len(element) = Len(text)
    /\ \A i \in 1..Len(text) :
          \/ text[i] = "\n" /\ element[i] = LineBreak
          \/ text[i] # "\n" /\ element[i] = text[i]

\* C9, as stated: the <title> element of the rendered document contains the
\* keyword, and the content element is the generated text with its newlines
\* converted.
C9_TitleHoldsKeyword ==
    \A k \in 1..Len(tasks) :
        Rendered(tasks[k])
        => LET doc == tasks[k].site[1].content[1]
           IN  /\ Contains(Between(doc, "<title>", "</title>"), tasks[k].request.keyword)
               /\ TextConverted(Between(doc, HtmlDivOpen, HtmlDivClose),
                                tasks[k].content_text[1])

\* C9, amended: the <title> element is the keyword in title case (a letter is
\* upper-cased when no letter precedes it and lower-cased otherwise, every
\* other character is kept), and the content element is the generated text
\* with its newlines converted.
C9_TitleHoldsTitleCasedKeyword ==
    \A k \in 1..Len(tasks) :
        Rendered(tasks[k])
        => LET doc == tasks[k].site[1].content[1]
               keyword == tasks[k].request.keyword
               title == Between(doc, "<title>", "</title>")
           IN  /\ Len(title) = Len(keyword)
               /\ \A i \in 1..Len(keyword) :
                     /\ ToLower(title[i]) = ToLower(keyword[i])
                     /\ IsCased(keyword[i])
                          => (IsUpper(title[i]) <=> (i = 1 \/ ~IsCased(keyword[i - 1])))
               /\ TextConverted(Between(doc, HtmlDivOpen, HtmlDivClose),
                                tasks[k].content_text[1])

C9_Witness ==
    \E k \in 1..Len(tasks) :
        /\ Rendered(tasks[k])
        /\ tasks[k].request.keyword = <<"a", " ", "a">>
        /\ tasks[k].content_text[1] = <<"\n", "a", "\n">>
        /\ Between(tasks[k].site[1].content[1], "<title>", "</title>") = <<"A", " ", "A">>


---------------------------------------------------------------------------
(* The job's writes as readers see them *)

\* C11: while the generator call of a job is in flight the persisted status
\* of its record is generating, and a get-record answered during the call
\* shows generating.
C11_GeneratingBeforeGeneratorCall ==
    \A k \in 1..Len(tasks) :
        tasks[k].pc = "calling"
        => /\ tasks[k].site_id \in DOMAIN sites
           /\ sites[tasks[k].site_id].status = "generating"
           /\ (response[1] = "get" /\ response[2] = tasks[k].site_id)
                 => (response[3] = 200 /\ response[4].status = "generating")

C11_Witness ==
    \E k \in 1..Len(tasks) :
        /\ tasks[k].pc = "calling"
        /\ response[1] = "get" /\ response[2] = tasks[k].site_id
        /\ response[4].status = "generating"

\* C12: a deployed record has non-empty content, the deployment URL of its
\* own id, seo_score 85, and analytics with word_count and deployment_time
\* and without error.
C12_DeployedRecordIsComplete ==
    \A i \in DOMAIN sites :
        sites[i].status = "deployed"
        => /\ sites[i].id = i
           /\ ~IsNone(sites[i].content) /\ Len(sites[i].content[1]) > 0
           /\ sites[i].cloud_url
                 = Some(<<"https://demo.autoseo.app/site/">> \o DigitsOf(i))
           /\ sites[i].seo_score = 85
           /\ ~IsNone(sites[i].analytics.word_count)
           /\ ~IsNone(sites[i].analytics.deployment_time)
           /\ IsNone(sites[i].analytics.error)

C12_Witness ==
    /\ Cardinality(DOMAIN sites) = 2
    /\ \A i \in DOMAIN sites : sites[i].status = "deployed"

\* C13: a job enters the generator call only if it has not called the
\* generator before, and the outcome of an ended call is never replaced;
\* each record has one job; once a record is failed, no step changes it, and
\* its job takes no further step.
C13_NoRetry ==
    [][ \A k \in 1..Len(tasks) :
          /\ (tasks'[k].pc = "calling" /\ tasks[k].pc # "calling")
                => IsNone(tasks[k].call)
          /\ ~IsNone(tasks[k].call) => tasks'[k].call = tasks[k].call
          /\ \A k2 \in 1..Len(tasks) :
                tasks[k2].site_id = tasks[k].site_id => k2 = k
          /\ (/\ tasks[k].site_id \in DOMAIN sites
              /\ sites[tasks[k].site_id].status = "failed")
                => /\ sites'[tasks[k].site_id] = sites[tasks[k].site_id]
                   /\ tasks'[k] = tasks[k] ]_vars

C13_Witness ==
    /\ \E k \in 1..Len(tasks) :
          /\ tasks[k].pc = "done"
          /\ ~IsNone(tasks[k].call) /\ tasks[k].call[1].kind = "raise"
          /\ sites[tasks[k].site_id].status = "failed"
    /\ \E k \in 1..Len(tasks) : tasks[k].pc = "calling"

\* C17: a record whose persisted status is pending or generating has no
\* content, no cloud_url, seo_score 0 and no word_count; a get-record answer
\* with one of these statuses shows no cloud_url and the score 0.
C17_SuccessWriteIsAtomic ==
    /\ \A i \in DOMAIN sites :
          sites[i].status \in {"pending", "generating"}
          => /\ IsNone(sites[i].content)
             /\ IsNone(sites[i].cloud_url)
             /\ sites[i].seo_score = 0
             /\ IsNone(sites[i].analytics.word_count)
    /\ (/\ response[1] = "get" /\ response[3] = 200
        /\ response[4].status \in {"pending", "generating"})
          => (IsNone(response[4].cloud_url) /\ response[4].seo_score = 0)

\* The job holds the rendered page and the store does not yet.
C17_Witness ==
    \E k \in 1..Len(tasks) :
        /\ tasks[k].pc = "commit"
        /\ ~IsNone(tasks[k].site[1].content)
        /\ response[1] = "get" /\ response[2] = tasks[k].site_id
        /\ response[4].status = "generating"

---------------------------------------------------------------------------
(* The dashboard among concurrent writers *)

\* C18: in every dashboard answer deployed_sites is at most total_sites.
C18_DeployedAtMostTotal ==
    response[1] = "dashboard"
    => response[4].overview.deployed_sites <= response[4].overview.total_sites

---------------------------------------------------------------------------
(* A job whose record is gone: the row was removed from the database after
   the request was answered and before the background task ran *)

\* An id the store's sequence does not hand out within the bounds.
MissingId == MaxSites + 1

InitMissing ==
    /\ sites = << >>
    /\ tasks = <<NewTask(MissingId, Request(Chars_ab, None, None))>>
    /\ now = StartTime
    /\ commits = 0
    /\ response = NoResponse
    /\ dash = IdleDash

SpecMissing == InitMissing /\ [][Next]_vars

\* C14: a job whose id has no record is at its start or has ended with the
\* error of step 1; it has not called the generator; its one step takes it
\* from the start to the error and leaves the store as it is; after the
\* error it takes no step, and no record of its id appears.
C14_MissingRecordEndsTheJob ==
    [][ \A k \in 1..Len(tasks) :
          tasks[k].site_id \notin DOMAIN sites
          => /\ tasks[k].pc \in {"scheduled", "crashed"}
             /\ IsNone(tasks[k].call) /\ IsNone(tasks[k].site)
             /\ tasks[k].site_id \notin DOMAIN sites'
             /\ tasks'[k] # tasks[k]
                   => /\ tasks[k].pc = "scheduled" /\ tasks'[k].pc = "crashed"
                      /\ IsNone(tasks'[k].call)
                      /\ sites' = sites /\ commits' = commits ]_vars

C14_Witness ==
    /\ Len(tasks) = 2
    /\ tasks[1].site_id \notin DOMAIN sites /\ tasks[1].pc = "crashed"
    /\ tasks[2].pc = "done" /\ sites[tasks[2].site_id].status = "deployed"

---------------------------------------------------------------------------
(* Progress of the jobs *)

\* A step of the background task of job k.
JobStep(k) ==
    /\ k \in 1..Len(tasks)
    /\ \/ JobLoad(k)
       \/ JobMarkGenerating(k)
       \/ \E outcome \in GeneratorOutcomes : GeneratorEnds(k, outcome)
       \/ \E accepted \in BOOLEAN : JobCommitDeployed(k, accepted)
       \/ \E how \in AfterFailedFlush : JobCommitFailed(k, how)

\* A step of the dashboard request.
DashStep ==
    \/ DashCountTotal
    \/ DashCountDeployed
    \/ DashAvgScore
    \/ \E scan \in Scans(sites) : DashRecent(scan)

\* The requests and the jobs, with one request body.
NextFair ==
    \/ GenerateSite(Request(Chars_ab, None, None))
    \/ \E k \in 1..MaxSites : JobStep(k)
    \/ DashStep
    \/ \E scan \in Scans(sites) : ListSites(scan)
    \/ \E site_id \in SiteIds : GetSite(site_id)

\* The event loop runs every scheduled task and every request handler that
\* can take a step, and every generator call comes to an end: with a
\* completion or with an exception.
SpecFair ==
    /\ Init /\ [][NextFair]_vars
    /\ \A k \in 1..MaxSites : WF_vars(JobStep(k))
    /\ WF_vars(DashStep)

\* C15: every record that has been created comes to have status deployed or
\* failed.
C15_EveryRecordEnds ==
    \A i \in 1..MaxSites :
        (i \in DOMAIN sites)
        ~> (i \in DOMAIN sites /\ sites[i].status \in {"deployed", "failed"})

---------------------------------------------------------------------------
(* A generator call that never returns *)

\* The job whose generator call hangs.
HungJob == 1

Hung == HungJob \in 1..Len(tasks) /\ tasks[HungJob].pc = "calling"

\* A step of job k, the hung call never ending.
JobStepHung(k) == JobStep(k) /\ ~(Hung /\ tasks'[HungJob].pc # "calling")

\* The requests and the jobs, with one request body and the hung call.
NextHung ==
    \/ GenerateSite(Request(Chars_ab, None, None))
    \/ \E k \in 1..MaxSites : JobStepHung(k)
    \/ DashStep
    \/ \E scan \in Scans(sites) : ListSites(scan)
    \/ \E site_id \in SiteIds : GetSite(site_id)

\* The event loop runs every task and every request handler that can take a
\* step; the calls of the other jobs come to an end.
SpecHung ==
    /\ Init /\ [][NextHung]_vars
    /\ \A k \in 1..MaxSites : WF_vars(JobStepHung(k))
    /\ WF_vars(DashStep)

\* C16: while the call of one job hangs its record is generating; the record
\* of every other job comes to deployed or failed; a dashboard request that
\* has begun is answered; and create-job answers with its job not yet begun.
C16_HungCallStallsOnlyItsJob ==
    /\ [](Hung => sites[tasks[HungJob].site_id].status = "generating")
    /\ \A i \in (1..MaxSites) \ {HungJob} :
          (i \in DOMAIN sites)
          ~> (i \in DOMAIN sites /\ sites[i].status \in {"deployed", "failed"})
    /\ (dash.pc # "idle") ~> (dash.pc = "idle")
    /\ []((response[1] = "generate" /\ response[3] = 200)
            => \E k \in 1..Len(tasks) :
                  /\ tasks[k].site_id = response[4].id
                  /\ tasks[k].pc = "scheduled" /\ IsNone(tasks[k].call))

=========================================================================
